---- MODULE Spec2Model ----
(***************************************************************************)
(* A model of Git_project.py: the FitnessActivity record with its          *)
(* to_dict / from_dict conversion, and the FitnessTracker store with its   *)
(* whole-file JSON persistence, its queries and its weekly summary.        *)
(*                                                                         *)
(* Python values are tagged tuples (None, float, str), a str is the        *)
(* sequence of its characters, and a date string "YYYY-MM-DD" is the str   *)
(* whose characters are its three numeric fields <<year, month, day>>.     *)
(* A datetime is a number of ticks since 2024-01-01 00:00, TicksPerDay     *)
(* ticks to the day; tick 0 of a day is midnight.                          *)
(***************************************************************************)
EXTENDS Integers, Sequences, FiniteSets, TLC

VARIABLES pc, activities, file_exists, file_data, now, call

vars == <<pc, activities, file_exists, file_data, now, call>>

(* ------------------------------ bounds ---------------------------------- *)

MaxActs == 2

TicksPerDay == 2

MaxTicks == 2

MaxWeeks == 2

Today == 64

(* --------------------------- Python values ------------------------------ *)

PyNone == <<"NoneType">>

PyNum(n) == <<"float", n>>

PyStr(s) == <<"str", s>>

Truthy(v) == v # PyNone /\ v # PyStr(<<>>) /\ v # PyNum(0)

NumOf(v) == v[2]

StrOf(v) == v[2]

(* ------------------------------ calendar -------------------------------- *)

MonthLen == <<31, 29, 31, 30, 31, 30, 31, 31, 30, 31, 30, 31>>

RECURSIVE DaysBefore(_)
DaysBefore(m) == IF m = 1 THEN 0 ELSE DaysBefore(m - 1) + MonthLen[m - 1]

RECURSIVE MonthOf(_, _)
MonthOf(ord, m) == IF ord < DaysBefore(m) + MonthLen[m] THEN m ELSE MonthOf(ord, m + 1)

DaysPerWeek == 7

WindowDays == 7

timedelta_days(d) == d * TicksPerDay

timedelta_weeks(w) == w * DaysPerWeek * TicksPerDay

strftime(dt) ==
  LET ord == dt \div TicksPerDay
      m   == MonthOf(ord, 1)
  IN  <<2024, m, ord - DaysBefore(m) + 1>>

strptime(s) == (DaysBefore(s[2]) + s[3] - 1) * TicksPerDay

(* ---------------------------- FitnessActivity --------------------------- *)

Keys == {"activity_type", "duration", "calories", "distance", "date", "notes"}

RequiredKeys == {"activity_type", "duration", "calories"}

FitnessActivity(activity_type, duration, calories, date, distance, notes, clock) ==
  [activity_type |-> activity_type,
   duration      |-> duration,
   calories      |-> calories,
   distance      |-> distance,
   notes         |-> notes,
   date          |-> IF Truthy(date) THEN date ELSE PyStr(strftime(clock))]

to_dict(a) ==
  [activity_type |-> a.activity_type,
   duration      |-> a.duration,
   calories      |-> a.calories,
   distance      |-> a.distance,
   date          |-> a.date,
   notes         |-> a.notes]

dict_get(data, k) == IF k \in DOMAIN data THEN data[k] ELSE PyNone

HasRequired(data) == RequiredKeys \subseteq DOMAIN data

from_dict_nodate(data, clock) ==
  FitnessActivity(data["activity_type"], data["duration"], data["calories"],
                  PyNone, dict_get(data, "distance"), dict_get(data, "notes"), clock)

from_dict_drops_zero(data, clock) ==
  FitnessActivity(data["activity_type"], data["duration"], data["calories"],
                  dict_get(data, "date"),
                  IF Truthy(dict_get(data, "distance")) THEN data["distance"] ELSE PyNone,
                  dict_get(data, "notes"), clock)

from_dict(data, clock) ==
  FitnessActivity(data["activity_type"], data["duration"], data["calories"],
                  dict_get(data, "date"), dict_get(data, "distance"),
                  dict_get(data, "notes"), clock)

(* --------------------------------- json --------------------------------- *)

JNull == <<"null">>

ToJson(v) ==
  IF v = PyNone THEN JNull
  ELSE IF v[1] = "float" THEN <<"number", v[2]>>
  ELSE <<"string", v[2]>>

FromJson(j) ==
  IF j = JNull THEN PyNone
  ELSE IF j[1] = "number" THEN PyNum(j[2])
  ELSE PyStr(j[2])

json_dump(items) == [i \in DOMAIN items |-> [k \in DOMAIN items[i] |-> ToJson(items[i][k])]]

json_load(text) == [i \in DOMAIN text |-> [k \in DOMAIN text[i] |-> FromJson(text[i][k])]]

(* ------------------------------ str.lower ------------------------------- *)

UpperCase == <<"R", "U", "N", "S", "W", "I", "M">>

LowerCase == <<"r", "u", "n", "s", "w", "i", "m">>

LowerChar(c) ==
  IF \E j \in DOMAIN UpperCase : UpperCase[j] = c
  THEN LowerCase[CHOOSE j \in DOMAIN UpperCase : UpperCase[j] = c]
  ELSE c

lower(v) == PyStr([i \in DOMAIN StrOf(v) |-> LowerChar(StrOf(v)[i])])

(* ----------------------------- FitnessTracker --------------------------- *)

RECURSIVE sum_calories(_)
sum_calories(acts) ==
  IF acts = <<>> THEN 0 ELSE NumOf(Head(acts).calories) + sum_calories(Tail(acts))

RECURSIVE sum_duration(_)
sum_duration(acts) ==
  IF acts = <<>> THEN 0 ELSE NumOf(Head(acts).duration) + sum_duration(Tail(acts))

save_data(acts) == json_dump([i \in DOMAIN acts |-> to_dict(acts[i])])

load_data_partial(acts, exists, data, clock) ==
  IF ~exists THEN [raised |-> FALSE, activities |-> acts]
  ELSE LET items == json_load(data)
           bad   == {i \in DOMAIN items : ~HasRequired(items[i])}
           good  == {i \in DOMAIN items : \A j \in bad : i < j}
       IN  [raised |-> bad # {},
            activities |-> [i \in good |-> from_dict(items[i], clock)]]

load_data(acts, exists, data, clock) ==
  IF ~exists THEN [raised |-> FALSE, activities |-> acts]
  ELSE LET items == json_load(data)
       IN  IF \E i \in DOMAIN items : ~HasRequired(items[i])
           THEN [raised |-> TRUE, activities |-> acts]
           ELSE [raised |-> FALSE,
                 activities |-> [i \in DOMAIN items |-> from_dict(items[i], clock)]]

InRangeUpperOnly(index, acts) == index < Len(acts)

InRange(index, acts) == 0 <= index /\ index < Len(acts)

list_del_last(acts, index) == SubSeq(acts, 1, Len(acts) - 1)

list_del(acts, index) ==
  LET i == IF index < 0 THEN index + Len(acts) ELSE index
  IN  SubSeq(acts, 1, i) \o SubSeq(acts, i + 2, Len(acts))

get_activities_by_date(acts, date) ==
  LET Test(a) == a.date = date IN SelectSeq(acts, Test)

get_activities_by_type_exact_query(acts, activity_type) ==
  LET Test(a) == lower(a.activity_type) = activity_type IN SelectSeq(acts, Test)

get_activities_by_type(acts, activity_type) ==
  LET Test(a) == lower(a.activity_type) = lower(activity_type) IN SelectSeq(acts, Test)

get_total_calories(acts) == PyNum(sum_calories(acts))

get_total_duration(acts) == PyNum(sum_duration(acts))

weekly_activities_end_exclusive(acts, clock, weeks_ago) ==
  LET end_date   == clock - timedelta_weeks(weeks_ago)
      start_date == end_date - timedelta_days(WindowDays)
      Test(a)    == /\ start_date <= strptime(StrOf(a.date))
                    /\ strptime(StrOf(a.date)) < end_date
  IN  SelectSeq(acts, Test)

weekly_activities_by_day(acts, clock, weeks_ago) ==
  LET end_date   == clock - timedelta_weeks(weeks_ago)
      start_date == end_date - timedelta_days(WindowDays)
      Test(a)    == /\ start_date \div TicksPerDay <= strptime(StrOf(a.date)) \div TicksPerDay
                    /\ strptime(StrOf(a.date)) <= end_date
  IN  SelectSeq(acts, Test)

weekly_activities(acts, clock, weeks_ago) ==
  LET end_date   == clock - timedelta_weeks(weeks_ago)
      start_date == end_date - timedelta_days(WindowDays)
      Test(a)    == /\ start_date <= strptime(StrOf(a.date))
                    /\ strptime(StrOf(a.date)) <= end_date
  IN  SelectSeq(acts, Test)

get_weekly_summary(acts, clock, weeks_ago) ==
  LET end_date   == clock - timedelta_weeks(weeks_ago)
      start_date == end_date - timedelta_days(WindowDays)
      selected   == weekly_activities(acts, clock, weeks_ago)
  IN  [start_date     |-> PyStr(strftime(start_date)),
       end_date       |-> PyStr(strftime(end_date)),
       total_calories |-> PyNum(sum_calories(selected)),
       total_duration |-> PyNum(sum_duration(selected)),
       activity_count |-> Len(selected)]

(* -------------------------------- inputs -------------------------------- *)

DateStr(ord) == PyStr(strftime(ord * TicksPerDay))

Run == PyStr(<<"R", "u", "n">>)

RUN == PyStr(<<"r", "U", "N">>)

Swim == PyStr(<<"S", "w", "i", "m">>)

Profile(activity_type, duration, calories, distance, notes) ==
  [activity_type |-> activity_type, duration |-> PyNum(duration),
   calories |-> PyNum(calories), distance |-> distance, notes |-> notes]

Profiles ==
  { Profile(Run, 30, 300, PyNone, PyNone),
    Profile(RUN, 45, 0, PyNum(5), PyStr(<<"x">>)),
    Profile(Swim, 20, 100, PyNum(0), PyStr(<<>>)) }

StoreDates == {PyNone, PyStr(<<>>), DateStr(Today), DateStr(Today - 1)}

WeeklyProfiles ==
  { Profile(Run, 30, 300, PyNone, PyNone),
    Profile(Swim, 20, 100, PyNum(0), PyStr(<<>>)) }

WeeklyDates ==
  {PyNone} \cup {DateStr(Today + d) : d \in {-14, -8, -7, 0, 1}}

TypeQueries == {Run, RUN, PyStr(<<"r", "u", "n">>), Swim, PyStr(<<"s", "w", "i", "m">>)}

DateQueries == {DateStr(Today), DateStr(Today - 1)}

IndexArgs == -1 .. MaxActs + 1

(* The persisted files a process can find at start: none, files this     *)
(* program wrote, a file whose records carry only the required keys, and *)
(* files with a record that lacks a required key.                        *)
GoodRec == json_dump(<<to_dict(FitnessActivity(Run, PyNum(30), PyNum(300),
                        DateStr(Today - 1), PyNone, PyNone, 0))>>)[1]

OtherRec == json_dump(<<to_dict(FitnessActivity(Swim, PyNum(20), PyNum(100),
                         DateStr(Today), PyNum(0), PyStr(<<>>), 0))>>)[1]

BareRec == [k \in RequiredKeys |-> GoodRec[k]]

Lacking(key) == [k \in Keys \ {key} |-> GoodRec[k]]

BadRec == Lacking("calories")

StoreFiles ==
  { <<>>, <<GoodRec>>, <<GoodRec, OtherRec>>, <<BareRec>>,
    <<BadRec>>, <<GoodRec, BadRec>>, <<BadRec, GoodRec>>,
    <<Lacking("activity_type")>>, <<OtherRec, Lacking("duration")>> }

(* ------------------------------- actions -------------------------------- *)

StartClock == Today * TicksPerDay

NoCall ==
  [op |-> "none", arg |-> PyNone, ret |-> PyNone, sel |-> <<>>, at |-> StartClock,
   acts0 |-> <<>>, exists0 |-> FALSE, data0 |-> <<>>]

Call(op, arg, ret, sel) ==
  [op |-> op, arg |-> arg, ret |-> ret, sel |-> sel, at |-> now,
   acts0 |-> activities, exists0 |-> file_exists, data0 |-> file_data]

InitWith(files) ==
  /\ pc = "new"
  /\ activities = <<>>
  /\ now = StartClock
  /\ call = NoCall
  /\ \/ file_exists = FALSE /\ file_data = <<>>
     \/ file_exists = TRUE /\ file_data \in files

Init == InitWith(StoreFiles)

InitWeekly == InitWith({<<GoodRec>>})

Tick ==
  /\ now < StartClock + MaxTicks
  /\ now' = now + 1
  /\ UNCHANGED <<pc, activities, file_exists, file_data, call>>

Construct ==
  /\ pc = "new"
  /\ LET r == load_data(<<>>, file_exists, file_data, now)
     IN  /\ activities' = r.activities
         /\ pc' = IF r.raised THEN "crashed" ELSE "running"
         /\ call' = Call("init", PyNone, IF r.raised THEN "KeyError" ELSE "None", <<>>)
  /\ UNCHANGED <<file_exists, file_data, now>>

Reload ==
  /\ pc = "running"
  /\ LET r == load_data(activities, file_exists, file_data, now)
     IN  /\ activities' = r.activities
         /\ pc' = IF r.raised THEN "crashed" ELSE "running"
         /\ call' = Call("load", PyNone, IF r.raised THEN "KeyError" ELSE "None", <<>>)
  /\ UNCHANGED <<file_exists, file_data, now>>

Persist ==
  /\ pc = "running"
  /\ file_exists' = TRUE
  /\ file_data' = save_data(activities)
  /\ call' = Call("save", PyNone, "None", <<>>)
  /\ UNCHANGED <<pc, activities, now>>

add_activity_save_first(activity) ==
  /\ pc = "running"
  /\ Len(activities) < MaxActs
  /\ file_exists' = TRUE
  /\ file_data' = save_data(activities)
  /\ activities' = Append(activities, activity)
  /\ call' = Call("add", activity, "None", <<>>)
  /\ UNCHANGED <<pc, now>>

add_activity(activity) ==
  /\ pc = "running"
  /\ Len(activities) < MaxActs
  /\ activities' = Append(activities, activity)
  /\ file_exists' = TRUE
  /\ file_data' = save_data(activities')
  /\ call' = Call("add", activity, "None", <<>>)
  /\ UNCHANGED <<pc, now>>

AddFrom(profiles, dates) ==
  \E p \in profiles, d \in dates :
     add_activity(FitnessActivity(p.activity_type, p.duration, p.calories, d,
                                  p.distance, p.notes, now))

Add == AddFrom(Profiles, StoreDates)

AddDated == AddFrom(WeeklyProfiles, WeeklyDates)

delete_activity(index) ==
  /\ pc = "running"
  /\ IF InRange(index, activities)
     THEN /\ activities' = list_del(activities, index)
          /\ file_exists' = TRUE
          /\ file_data' = save_data(activities')
          /\ call' = Call("delete", index, TRUE, <<>>)
     ELSE /\ call' = Call("delete", index, FALSE, <<>>)
          /\ UNCHANGED <<activities, file_exists, file_data>>
  /\ UNCHANGED <<pc, now>>

Delete == \E index \in IndexArgs : delete_activity(index)

ByDate ==
  \E date \in DateQueries :
     /\ pc = "running"
     /\ call' = Call("by_date", date, get_activities_by_date(activities, date), <<>>)
     /\ UNCHANGED <<pc, activities, file_exists, file_data, now>>

ByType ==
  \E activity_type \in TypeQueries :
     /\ pc = "running"
     /\ call' = Call("by_type", activity_type,
                     get_activities_by_type(activities, activity_type), <<>>)
     /\ UNCHANGED <<pc, activities, file_exists, file_data, now>>

Totals ==
  /\ pc = "running"
  /\ call' = Call("totals", PyNone,
                  <<get_total_calories(activities), get_total_duration(activities)>>, <<>>)
  /\ UNCHANGED <<pc, activities, file_exists, file_data, now>>

Weekly ==
  \E weeks_ago \in 0 .. MaxWeeks :
     /\ pc = "running"
     /\ call' = Call("weekly", weeks_ago,
                     get_weekly_summary(activities, now, weeks_ago),
                     weekly_activities(activities, now, weeks_ago))
     /\ UNCHANGED <<pc, activities, file_exists, file_data, now>>

Next ==
  \/ Tick
  \/ Construct
  \/ Reload
  \/ Persist
  \/ Add
  \/ Delete
  \/ ByDate
  \/ ByType
  \/ Totals

Spec == Init /\ [][Next]_vars

NextWeekly ==
  \/ Tick
  \/ Construct
  \/ AddDated
  \/ Weekly

SpecWeekly == InitWeekly /\ [][NextWeekly]_vars

(* ------------------------- vocabulary of the claims --------------------- *)

Range(s) == {s[i] : i \in DOMAIN s}

RECURSIVE PickFrom(_, _, _)
PickFrom(s, S, i) ==
  IF i > Len(s) THEN <<>>
  ELSE (IF i \in S THEN <<s[i]>> ELSE <<>>) \o PickFrom(s, S, i + 1)

RECURSIVE Total(_, _, _)
Total(s, field, i) ==
  IF i > Len(s) THEN 0 ELSE s[i][field][2] + Total(s, field, i + 1)

MappingForm(acts) == [i \in 1 .. Len(acts) |-> [k \in Keys |-> ToJson(acts[i][k])]]

SameLetter(c, d) ==
  c = d \/ \E j \in DOMAIN UpperCase : {c, d} = {UpperCase[j], LowerCase[j]}

SameIgnoringCase(v, w) ==
  /\ Len(v[2]) = Len(w[2])
  /\ \A i \in DOMAIN v[2] : SameLetter(v[2][i], w[2][i])

DateBefore(s, t) ==
  \/ s[1] < t[1]
  \/ s[1] = t[1] /\ s[2] < t[2]
  \/ s[1] = t[1] /\ s[2] = t[2] /\ s[3] < t[3]

Clocks == StartClock .. StartClock + MaxTicks + TicksPerDay

TimeOfDay(dt) == dt % TicksPerDay

DayOf(dt) == dt \div TicksPerDay

StoreUntouched ==
  /\ activities = call.acts0
  /\ file_exists = call.exists0
  /\ file_data = call.data0

WeeksSelecting(a) ==
  {k \in 0 .. MaxWeeks : a \in Range(weekly_activities(activities, call.at, k))}

(* -------------------------------- claims -------------------------------- *)

(* C1: delete(i) with i < 0 or i >= length returns False, raises nothing,   *)
(* and leaves the in-memory sequence and the persisted content as they were.*)
C1_DeleteOutOfRange ==
  (call.op = "delete" /\ (call.arg < 0 \/ call.arg >= Len(call.acts0)))
     => (call.ret = FALSE /\ pc = "running" /\ StoreUntouched)

C1_Witness ==
  /\ call.op = "delete"
  /\ call.arg = -1
  /\ Len(call.acts0) = MaxActs
  /\ call.exists0
  /\ call.ret = FALSE

(* C2: delete(k) with 0 <= k < n returns True and leaves n-1 elements: the  *)
(* elements before k stay where they were, those after k move down by one.  *)
C2_DeleteShifts ==
  (call.op = "delete" /\ 0 <= call.arg /\ call.arg < Len(call.acts0))
     => LET k == call.arg
            n == Len(call.acts0)
        IN  /\ call.ret = TRUE
            /\ Len(activities) = n - 1
            /\ \A j \in 0 .. k - 1 : activities[j + 1] = call.acts0[j + 1]
            /\ \A j \in k + 1 .. n - 1 : activities[j] = call.acts0[j + 1]

C2_Witness ==
  /\ call.op = "delete"
  /\ call.arg = 0
  /\ Len(call.acts0) >= 2
  /\ call.acts0[1] # call.acts0[2]
  /\ call.ret = TRUE
  /\ activities[1] = call.acts0[2]

(* C3 as stated: once any add or delete call has returned, the persisted    *)
(* content is the mapping form of the in-memory sequence, and it is absent  *)
(* only while the sequence is empty and the call did not mutate.            *)
C3_Original ==
  call.op \in {"add", "delete"}
     => IF file_exists
        THEN file_data = MappingForm(activities)
        ELSE activities = <<>> /\ call.ret = FALSE

(* C3 as amended: once an add call or an in-range delete call has returned, *)
(* the persisted content exists and is the mapping form of the in-memory    *)
(* sequence, element for element (add having appended at the end); an       *)
(* out-of-range delete leaves the persisted content as it was; the content  *)
(* is absent only while the in-memory sequence is empty.                    *)
C3_PersistedAfterMutation ==
  /\ call.op = "add" => activities = call.acts0 \o <<call.arg>>
  /\ (call.op = "add" \/ (call.op = "delete" /\ call.ret = TRUE))
        => file_exists /\ file_data = MappingForm(activities)
  /\ (call.op = "delete" /\ call.ret = FALSE)
        => file_exists = call.exists0 /\ file_data = call.data0
  /\ ~file_exists => activities = <<>>

C3_Witness ==
  /\ call.op = "add"
  /\ Len(call.acts0) >= 1
  /\ call.exists0
  /\ call.data0 # MappingForm(call.acts0)
  /\ file_data = MappingForm(activities)

(* C4: reload() right after persist() (the file holds what persist wrote    *)
(* from the sequence in memory) yields that same sequence: same length,     *)
(* same order, all six fields of every activity equal.                      *)
C4_ReloadAfterPersist ==
  (call.op = "load" /\ call.exists0 /\ call.data0 = MappingForm(call.acts0))
     => /\ call.ret = "None"
        /\ Len(activities) = Len(call.acts0)
        /\ \A i \in DOMAIN activities :
              \A k \in Keys : activities[i][k] = call.acts0[i][k]

C4_Witness ==
  /\ call.op = "load"
  /\ call.data0 = MappingForm(call.acts0)
  /\ Len(activities) >= 2
  /\ activities[1] # activities[2]
  /\ \E i \in DOMAIN activities :
        /\ activities[i].date # PyStr(strftime(call.at))
        /\ activities[i].distance = PyNone

(* C5: for an Activity a made by the constructor, from_dict(to_dict(a)),    *)
(* evaluated at any current time, equals a in all six fields: an unset      *)
(* distance or notes stays None and the date is kept.                       *)
C5_RoundTrip ==
  call.op = "add"
     => \A t \in Clocks :
           LET b == from_dict(to_dict(call.arg), t)
           IN  \A k \in Keys : b[k] = call.arg[k]

C5_Witness ==
  /\ call.op = "add"
  /\ call.arg.distance = PyNone
  /\ call.arg.notes = PyNone
  /\ call.arg.date = PyStr(strftime(call.at))
  /\ DayOf(call.at) = Today
  /\ \E i \in DOMAIN call.acts0 : call.acts0[i].distance = PyNum(0)

(* C6: weekly_summary(0) at any time of day selects every activity dated    *)
(* the calendar date 7 days before now and no activity dated 8 days before. *)
C6_SevenDaysBackIncluded ==
  (call.op = "weekly" /\ call.arg = 0)
     => \A i \in DOMAIN activities :
           /\ activities[i].date = DateStr(DayOf(call.at) - 7)
                 => activities[i] \in Range(call.sel)
           /\ activities[i].date = DateStr(DayOf(call.at) - 8)
                 => activities[i] \notin Range(call.sel)

(* C7: weekly_summary(k) selects every activity dated the calendar date of  *)
(* end = now - 7k days, which it returns as end_date, selects no activity   *)
(* of a later date, and returns the count and the sums of calories and      *)
(* duration over exactly the selected activities.                           *)
C7_EndDateIncluded ==
  call.op = "weekly"
     => LET end == DateStr(DayOf(call.at) - 7 * call.arg)
        IN  /\ call.ret.end_date = end
            /\ \A i \in DOMAIN activities :
                  /\ activities[i].date = end => activities[i] \in Range(call.sel)
                  /\ DateBefore(end[2], activities[i].date[2])
                        => activities[i] \notin Range(call.sel)
            /\ Range(call.sel) \subseteq Range(activities)
            /\ call.ret.activity_count = Len(call.sel)
            /\ call.ret.total_calories = PyNum(Total(call.sel, "calories", 1))
            /\ call.ret.total_duration = PyNum(Total(call.sel, "duration", 1))

C7_Witness ==
  /\ call.op = "weekly"
  /\ call.arg = 1
  /\ TimeOfDay(call.at) # 0
  /\ Len(activities) = 2
  /\ activities[1].date = DateStr(DayOf(call.at) - 7)
  /\ DateBefore(DateStr(DayOf(call.at) - 7)[2], activities[2].date[2])
  /\ call.sel = <<activities[1]>>
  /\ call.ret.total_calories = activities[1].calories

(* C8: activities_by_type returns exactly the activities whose stored type  *)
(* equals the query up to letter case, in insertion order, the same list    *)
(* for any two queries that differ only in letter case, and changes nothing.*)
C8_TypeFilterIgnoresCase ==
  call.op = "by_type"
     => /\ call.ret = PickFrom(activities,
                         {i \in DOMAIN activities :
                             SameIgnoringCase(activities[i].activity_type, call.arg)}, 1)
        /\ \A q \in TypeQueries :
              SameIgnoringCase(q, call.arg)
                 => get_activities_by_type(activities, q) = call.ret
        /\ StoreUntouched

C8_Witness ==
  /\ call.op = "by_type"
  /\ Len(call.ret) = 2
  /\ call.ret[1].activity_type # call.ret[2].activity_type
  /\ call.arg \notin {call.ret[1].activity_type, call.ret[2].activity_type}

(* C9: a reload of an existing file in which some record lacks one of       *)
(* activity_type, duration, calories fails with KeyError, installs none of  *)
(* the file's records and leaves the in-memory sequence as it was.          *)
C9_MissingFieldFailsReload ==
  (/\ call.op \in {"init", "load"}
   /\ call.exists0
   /\ \E i \in DOMAIN call.data0 : ~(RequiredKeys \subseteq DOMAIN call.data0[i]))
     => /\ call.ret = "KeyError"
        /\ pc = "crashed"
        /\ activities = call.acts0

C9_Witness ==
  /\ call.op = "init"
  /\ Len(call.data0) = 2
  /\ RequiredKeys \subseteq DOMAIN call.data0[1]
  /\ ~(RequiredKeys \subseteq DOMAIN call.data0[2])
  /\ call.ret = "KeyError"

(* C10 as stated: at any time of day, midnight included, every activity is  *)
(* selected by at most one weeks_ago, and by exactly one when it is dated   *)
(* on or before today.                                                      *)
C10_Original ==
  call.op = "weekly"
     => \A i \in DOMAIN activities :
           /\ Cardinality(WeeksSelecting(activities[i])) <= 1
           /\ ~DateBefore(DateStr(DayOf(call.at))[2], activities[i].date[2])
                 => Cardinality(WeeksSelecting(activities[i])) = 1

(* C10 as amended: at any time of day other than exactly midnight, every    *)
(* activity is selected by at most one weeks_ago, and by exactly one when   *)
(* it is dated on or before today; at exactly midnight an activity dated a  *)
(* positive multiple of 7 days before today is selected by two.             *)
C10_WindowsPartition ==
  call.op = "weekly"
     => \A i \in DOMAIN activities :
           LET n     == Cardinality(WeeksSelecting(activities[i]))
               today == DateStr(DayOf(call.at))
               back  == DayOf(call.at) - DayOf(strptime(activities[i].date[2]))
           IN  IF DateBefore(today[2], activities[i].date[2]) THEN n = 0
               ELSE IF TimeOfDay(call.at) = 0 /\ back > 0 /\ back % 7 = 0 THEN n = 2
               ELSE n = 1

C10_Witness ==
  /\ call.op = "weekly"
  /\ call.arg = 1
  /\ TimeOfDay(call.at) # 0
  /\ \E i \in DOMAIN activities :
        /\ activities[i].date = DateStr(DayOf(call.at) - 7)
        /\ call.sel = <<activities[i]>>

====
